---- MODULE Spec2Model ----
(***************************************************************************)
(* Model of aiida_pseudo.groups.family.pseudo.PseudoPotentialFamily:       *)
(* parsing a directory into pseudo potential nodes, creating a family from *)
(* a folder, adding nodes under the one-pseudo-per-element rule, and the   *)
(* lazily built `_pseudos` cache with its query fallback.                  *)
(*                                                                         *)
(* The database holds groups (label, stored flag, member nodes) and the    *)
(* set of stored nodes.  A Python instance of a family holds the `_pseudos`*)
(* dictionary (None until first use).  Each family is held through two     *)
(* Python variables: "a", bound by the constructor (create_from_folder     *)
(* returns it), and "b", bound by `cls.objects.get(label=...)`.  Every     *)
(* method can be called on either instance, one call after the other; the  *)
(* instance cache is unshared state, so the cache of one instance lags     *)
(* behind the database when nodes are added through the other.             *)
(***************************************************************************)
EXTENDS Integers, Sequences, FiniteSets, TLC

\* Bounds of the model.
MaxBatch == 2
MaxDirLen == 2
MaxListing == 3

\* Python's None (an unset element, an unset description).
None == "None"

\* The class attribute `_pseudo_type` of the base family class.
_pseudo_type == "PseudoPotentialData"

\* A subclass of `_pseudo_type` (such as UpfData).
SubType == "UpfData"

\* issubclass(t, PseudoPotentialData), as __init__ evaluates it.
issubclass(t, base) == t = base \/ (t = SubType /\ base = "PseudoPotentialData")

Labels == {"A", "B"}

\* Families: 0 was stored in the database, empty and under label "B", before
\* this process started, and the process holds no instance of it; 1 is the
\* family object the process makes.
FamilyIds == {1, 2}
GroupIds == {0} \cup FamilyIds
ExistingLabel == "B"

Holders == {"a", "b"}

\* A node: identity (origin, name), element attribute, exact Python type.
Node(origin, name, element, type) ==
    [origin |-> origin, name |-> name, element |-> element, type |-> type]

NoNode == Node("none", <<>>, None, None)

\* Nodes a caller of add_nodes holds.
P1 == Node("pool", <<"p1">>, "Fe", _pseudo_type)
P2 == Node("pool", <<"p2">>, "Fe", _pseudo_type)
P3 == Node("pool", <<"p3">>, "O", _pseudo_type)
P4 == Node("pool", <<"p4">>, "O", SubType)
Pool == {P1, P2, P3, P4}

\* Pool nodes that are stored from the start; P2 is stored by StoreNode.
InitiallyStored == {P1, P3, P4}

Elements == {"Fe", "O"}

(***************************************************************************)
(* Dictionaries: functions from element symbols to nodes.                  *)
(***************************************************************************)
EmptyDict == [e \in {} |-> NoNode]

\* Mutant of update: the dictionary is replaced by `other`, not merged.
update_replaces(d, other) == other

\* dict.update(other)
update(d, other) ==
    [e \in (DOMAIN d) \cup (DOMAIN other) |->
        IF e \in DOMAIN other THEN other[e] ELSE d[e]]

\* d[key] = value
setitem(d, key, value) ==
    [e \in (DOMAIN d) \cup {key} |-> IF e = key THEN value ELSE d[e]]

Range(s) == {s[i] : i \in DOMAIN s}

(***************************************************************************)
(* The directory given to parse_pseudos_from_directory: whether the path   *)
(* is a directory, and its listing.  An entry has a filename (a sequence   *)
(* of characters), is a regular file or not, and `ctor` says what the      *)
(* constructor of `_pseudo_type` does with its content: "ParsingError"     *)
(* when it raises, else the element it sets (None when it sets none).      *)
(***************************************************************************)
Entry(filename, isfile, ctor) ==
    [filename |-> filename, isfile |-> isfile, ctor |-> ctor]

FeUpf == Entry(<<"F", "e", ".", "u", "p", "f">>, TRUE, "Fe")
Fe2Upf == Entry(<<"F", "e", "2", ".", "u", "p", "f">>, TRUE, "Fe")
OUpf == Entry(<<"O", ".", "u", "p", "f">>, TRUE, None)
IronUpf == Entry(<<"I", "r", "o", "n", ".", "u", "p", "f">>, TRUE, None)
BadUpf == Entry(<<"S", "i", ".", "u", "p", "f">>, TRUE, "ParsingError")
SubDir == Entry(<<"s", "u", "b">>, FALSE, None)

\* The entries the directories of create_from_folder are made of: a file for
\* each element and one that does not parse.  create_from_folder hands every
\* exception of parse_pseudos_from_directory on unchanged (line 114), and the
\* calls of parse_pseudos_from_directory on its own take further entries,
\* two files of one element among them.
Entries == {FeUpf, OUpf, BadUpf}

\* Listings of at most MaxDirLen entries with distinct filenames, in any order.
Listings ==
    UNION {{l \in [1..n -> Entries] :
               \A i, j \in 1..n : i # j => l[i].filename # l[j].filename} :
           n \in 0..MaxDirLen}

Dir(isdir, listing) == [isdir |-> isdir, listing |-> listing]

Dirs == {Dir(FALSE, <<>>)} \cup {Dir(TRUE, l) : l \in Listings}

\* Character classes of the regular expression of line 75.
UpperCase == {"A", "B", "C", "D", "E", "F", "G", "H", "I", "J", "K", "L", "M",
              "N", "O", "P", "Q", "R", "S", "T", "U", "V", "W", "X", "Y", "Z"}
LowerCase == {"a", "b", "c", "d", "e", "f", "g", "h", "i", "j", "k", "l", "m",
              "n", "o", "p", "q", "r", "s", "t", "u", "v", "w", "x", "y", "z"}
Digits == {"0", "1", "2", "3", "4", "5", "6", "7", "8", "9"}
Alpha == UpperCase \cup LowerCase
\* The pattern is a str pattern compiled without re.ASCII, so \w is every
\* character that is alphanumeric in Unicode, and the underscore.  The
\* alphabet of the model ends at U+00FF.
Latin1Letters == {"ª", "µ", "º", "À", "Á", "Â", "Ã", "Ä", "Å", "Æ", "Ç",
                  "È", "É", "Ê", "Ë", "Ì", "Í", "Î", "Ï", "Ð", "Ñ", "Ò",
                  "Ó", "Ô", "Õ", "Ö", "Ø", "Ù", "Ú", "Û", "Ü", "Ý", "Þ",
                  "ß", "à", "á", "â", "ã", "ä", "å", "æ", "ç", "è", "é",
                  "ê", "ë", "ì", "í", "î", "ï", "ð", "ñ", "ò", "ó", "ô",
                  "õ", "ö", "ø", "ù", "ú", "û", "ü", "ý", "þ", "ÿ"}
Latin1Numerics == {"²", "³", "¹", "¼", "½", "¾"}
WordChar == Alpha \cup Digits \cup {"_"} \cup Latin1Letters \cup Latin1Numerics

\* Mutant of re_search: the pattern asks for exactly two letters.
re_search_two_letters(filename) ==
    IF /\ Len(filename) >= 4
       /\ filename[1] \in Alpha /\ filename[2] \in Alpha
       /\ filename[3] = "." /\ filename[4] \in WordChar
    THEN filename[1] \o filename[2]
    ELSE None

\* re.search(r'^([A-Za-z]{1,2})\.\w+', filename): group 1 of the match, or None.
\* The pattern is anchored at the start only; {1,2} is tried with two letters
\* first, then with one.
re_search(filename) ==
    IF /\ Len(filename) >= 4
       /\ filename[1] \in Alpha /\ filename[2] \in Alpha
       /\ filename[3] = "." /\ filename[4] \in WordChar
    THEN filename[1] \o filename[2]
    ELSE IF /\ Len(filename) >= 3
            /\ filename[1] \in Alpha
            /\ filename[2] = "." /\ filename[3] \in WordChar
         THEN filename[1]
         ELSE None

\* An outcome of parse_pseudos_from_directory: the exception raised ("None"
\* when it returns) and the list returned.
Parsed(exc, msg, pseudos) == [exc |-> exc, msg |-> msg, pseudos |-> pseudos]

\* The loop of lines 62-84 from entry i on; `tag` names the objects the
\* constructor creates in this call, `pseudos` is the list built so far.
RECURSIVE parse_loop(_, _, _, _)
parse_loop(listing, i, tag, pseudos) ==
    IF i > Len(listing) THEN Parsed("None", "", pseudos)
    ELSE LET entry == listing[i] IN
         IF ~entry.isfile THEN Parsed("ValueError", "not_a_file", <<>>)
         ELSE IF entry.ctor = "ParsingError"
         THEN Parsed("ParsingError", "failed_to_parse", <<>>)
         ELSE LET pseudo == Node(tag, entry.filename, entry.ctor, _pseudo_type) IN
              IF pseudo.element = None
              THEN LET match == re_search(entry.filename) IN
                   IF match = None
                   THEN Parsed("ParsingError", "no_element", <<>>)
                   ELSE parse_loop(listing, i + 1, tag,
                            Append(pseudos, [pseudo EXCEPT !.element = match]))
              ELSE parse_loop(listing, i + 1, tag, Append(pseudos, pseudo))

\* Mutant of parse_pseudos_from_directory: without the check of lines 89-92.
parse_pseudos_from_directory_unchecked(dir, tag) ==
    IF ~dir.isdir THEN Parsed("ValueError", "not_a_directory", <<>>)
    ELSE LET looped == parse_loop(dir.listing, 1, tag, <<>>) IN
         IF looped.exc # "None" THEN looped
         ELSE IF looped.pseudos = <<>>
         THEN Parsed("ValueError", "no_pseudos", <<>>)
         ELSE looped

parse_pseudos_from_directory(dir, tag) ==
    IF ~dir.isdir THEN Parsed("ValueError", "not_a_directory", <<>>)
    ELSE LET looped == parse_loop(dir.listing, 1, tag, <<>>) IN
         IF looped.exc # "None" THEN looped
         ELSE IF looped.pseudos = <<>>
         THEN Parsed("ValueError", "no_pseudos", <<>>)
         ELSE LET elements == {looped.pseudos[i].element :
                                  i \in DOMAIN looped.pseudos} IN
              IF Len(looped.pseudos) # Cardinality(elements)
              THEN Parsed("ValueError", "duplicate_elements", <<>>)
              ELSE looped

(***************************************************************************)
(* The family instance: the group (label, is_stored, nodes) and the        *)
(* `_pseudos` cache of one Python instance.                                *)
(***************************************************************************)
Group(label, is_stored, nodes) ==
    [made |-> TRUE, label |-> label, is_stored |-> is_stored, nodes |-> nodes]

NoGroup == [made |-> FALSE, label |-> "", is_stored |-> FALSE, nodes |-> {}]

\* `_pseudos`: built = FALSE is Python's None.
Cache(built, dict) == [live |-> TRUE, built |-> built, dict |-> dict]

NoInstance == [live |-> FALSE, built |-> FALSE, dict |-> EmptyDict]

FreshInstance == Cache(FALSE, EmptyDict)

\* The dictionaries the comprehension of line 162 can give for a set of
\* nodes: one node per element (the iteration order of `self.nodes` decides
\* which, when two nodes carry one element).
comprehension(nodes) ==
    LET els == {n.element : n \in nodes} IN
    {d \in [els -> nodes] : \A e \in els : d[e].element = e}

\* Mutant of pseudos: the index is rebuilt at every access (the test of
\* line 161 missing).
pseudos_rebuilds(cache, nodes) == comprehension(nodes)

\* The property `pseudos`: the dictionaries it can return (and leave in
\* `_pseudos`).
pseudos(cache, nodes) ==
    IF ~cache.built THEN comprehension(nodes) ELSE {cache.dict}

\* The property `elements`, given the dictionary `pseudos` returned.
elements(dict) == DOMAIN dict

\* An outcome of a method: exception, the instance's cache and the group's
\* nodes afterwards.
Outcome(exc, msg, cache, nodes) ==
    [exc |-> exc, msg |-> msg, cache |-> cache, nodes |-> nodes]

\* isinstance(nodes, (list, tuple)) or a single node: lines 137-138.
SingleNode(node) == [kind |-> "node", node |-> node, items |-> <<>>]
NodeList(items) == [kind |-> "list", node |-> NoNode, items |-> items]
as_list(input) == IF input.kind = "list" THEN input.items ELSE <<input.node>>

\* Mutant of stage: the loop without the test of line 147.
RECURSIVE stage_unchecked(_, _, _, _)
stage_unchecked(nodes, i, keys, staged) ==
    IF i > Len(nodes) THEN [ok |-> TRUE, pseudos |-> staged]
    ELSE stage_unchecked(nodes, i + 1, keys,
                         setitem(staged, nodes[i].element, nodes[i]))

\* The loop of lines 146-149 from node i on: FALSE when a node's element is
\* in `keys` (self.elements), else the staging dictionary.
RECURSIVE stage(_, _, _, _)
stage(nodes, i, keys, staged) ==
    IF i > Len(nodes) THEN [ok |-> TRUE, pseudos |-> staged]
    ELSE IF nodes[i].element \in keys
    THEN [ok |-> FALSE, pseudos |-> staged]
    ELSE stage(nodes, i + 1, keys, setitem(staged, nodes[i].element, nodes[i]))

\* Mutant of super_add_nodes: the call of line 153 is left out.
super_add_nodes_skipped(group_nodes, nodes, stored_nodes) ==
    [ok |-> TRUE, nodes |-> group_nodes]

\* Group.add_nodes (line 153): every node must be stored, else ValueError and
\* nothing is added.
super_add_nodes(group_nodes, nodes, stored_nodes) ==
    IF \E i \in DOMAIN nodes : nodes[i] \notin stored_nodes
    THEN [ok |-> FALSE, nodes |-> group_nodes]
    ELSE [ok |-> TRUE, nodes |-> group_nodes \cup Range(nodes)]

\* Mutant of wrong_type: an isinstance test, which a subclass passes.
wrong_type_isinstance(node) == ~issubclass(node.type, _pseudo_type)

\* type(node) is not self._pseudo_type, of line 140.
wrong_type(node) == node.type # _pseudo_type

\* Mutant of add_nodes_stored: the loop of lines 146-149 runs before the
\* type check of lines 140-141.
add_nodes_stored_elements_first(group, cache, input, stored_nodes) ==
    LET nodes == as_list(input) IN
    {LET staged == stage(nodes, 1, elements(dict), EmptyDict)
         merged == update(dict, staged.pseudos)
         added == super_add_nodes(group.nodes, nodes, stored_nodes)
     IN  IF ~staged.ok
         THEN Outcome("ValueError", "element_present",
                      Cache(TRUE, dict), group.nodes)
         ELSE IF \E i \in DOMAIN nodes : wrong_type(nodes[i])
         THEN Outcome("TypeError", "wrong_type", Cache(TRUE, dict), group.nodes)
         ELSE IF ~added.ok
         THEN Outcome("ValueError", "unstored_node",
                      Cache(TRUE, merged), group.nodes)
         ELSE Outcome("None", "", Cache(TRUE, merged), added.nodes)
     : dict \in pseudos(cache, group.nodes)}

\* add_nodes from line 137 on (the family is stored): the possible outcomes.
add_nodes_stored(group, cache, input, stored_nodes) ==
    LET nodes == as_list(input) IN
    IF \E i \in DOMAIN nodes : wrong_type(nodes[i])
    THEN {Outcome("TypeError", "wrong_type", cache, group.nodes)}
    ELSE {LET staged == stage(nodes, 1, elements(dict), EmptyDict)
              merged == update(dict, staged.pseudos)
              added == super_add_nodes(group.nodes, nodes, stored_nodes)
          IN  IF ~staged.ok
              THEN Outcome("ValueError", "element_present",
                           Cache(TRUE, dict), group.nodes)
              ELSE IF ~added.ok
              THEN Outcome("ValueError", "unstored_node",
                           Cache(TRUE, merged), group.nodes)
              ELSE Outcome("None", "", Cache(TRUE, merged), added.nodes)
          : dict \in pseudos(cache, group.nodes)}

\* Mutant of add_nodes: without the guard of lines 134-135.
add_nodes_unguarded(group, cache, input, stored_nodes) ==
    add_nodes_stored(group, cache, input, stored_nodes)

\* add_nodes(self, nodes): the set of possible outcomes.
add_nodes(group, cache, input, stored_nodes) ==
    IF ~group.is_stored
    THEN {Outcome("ModificationNotAllowed", "unstored_group", cache, group.nodes)}
    ELSE add_nodes_stored(group, cache, input, stored_nodes)

\* The query of lines 184-189: nodes of `_pseudo_type` (subclasses included)
\* in this group with the given element attribute.
query(group, element) ==
    {n \in group.nodes : n.element = element /\ issubclass(n.type, _pseudo_type)}

\* An outcome of get_pseudo.
Got(exc, msg, cache, pseudo, queried) ==
    [exc |-> exc, msg |-> msg, cache |-> cache, pseudo |-> pseudo,
     queried |-> queried]

\* Mutant of get_pseudo: the node the query finds is returned but not put
\* in the index (line 195 missing).
get_pseudo_uncached(group, cache, element) ==
    UNION {
        IF element \in DOMAIN dict
        THEN {Got("None", "", Cache(TRUE, dict), dict[element], FALSE)}
        ELSE LET found == query(group, element) IN
             IF Cardinality(found) > 1
             THEN {Got("RuntimeError", "multiple_pseudos", Cache(TRUE, dict),
                       NoNode, TRUE)}
             ELSE IF found = {}
             THEN {Got("ValueError", "no_pseudo", Cache(TRUE, dict), NoNode, TRUE)}
             ELSE {Got("None", "", Cache(TRUE, dict), pseudo, TRUE) :
                   pseudo \in found}
        : dict \in pseudos(cache, group.nodes)}

\* Mutant of get_pseudo: the query is made whether or not the index has the
\* element.
get_pseudo_always_queries(group, cache, element) ==
    UNION {
        LET found == query(group, element) IN
        IF Cardinality(found) > 1
        THEN {Got("RuntimeError", "multiple_pseudos", Cache(TRUE, dict),
                  NoNode, TRUE)}
        ELSE IF found = {}
        THEN {Got("ValueError", "no_pseudo", Cache(TRUE, dict), NoNode, TRUE)}
        ELSE {Got("None", "", Cache(TRUE, setitem(dict, element, pseudo)),
                  pseudo, TRUE) : pseudo \in found}
        : dict \in pseudos(cache, group.nodes)}

\* get_pseudo(self, element): the set of possible outcomes.
get_pseudo(group, cache, element) ==
    UNION {
        IF element \in DOMAIN dict
        THEN {Got("None", "", Cache(TRUE, dict), dict[element], FALSE)}
        ELSE LET found == query(group, element) IN
             IF Cardinality(found) > 1
             THEN {Got("RuntimeError", "multiple_pseudos", Cache(TRUE, dict),
                       NoNode, TRUE)}
             ELSE IF found = {}
             THEN {Got("ValueError", "no_pseudo", Cache(TRUE, dict), NoNode, TRUE)}
             ELSE {Got("None", "", Cache(TRUE, setitem(dict, element, pseudo)),
                       pseudo, TRUE) : pseudo \in found}
        : dict \in pseudos(cache, group.nodes)}

\* type_check(description, str, allow_none=True) of line 105, on the type of
\* the value given.
DescriptionTypes == {"str", "NoneType", "int"}
type_check(description) == description \in {"str", "NoneType"}

\* An outcome of create_from_folder: exception, the family as it is in the
\* database afterwards (NoGroup when none was stored), the cache of the
\* instance returned, and the stored nodes afterwards.
Created(exc, msg, group, cache, stored_nodes) ==
    [exc |-> exc, msg |-> msg, group |-> group, cache |-> cache,
     stored_nodes |-> stored_nodes]

\* Mutant of objects_get: the lookup finds nothing (NotExistent always).
objects_get_misses(stored_groups, label) == {}

\* cls.objects.get(label=label) of line 108: a stored family with the label.
objects_get(stored_groups, label) == {g \in stored_groups : g.label = label}

\* Mutant of create_from_folder: the family is stored (line 118) before the
\* directory is parsed (line 114).
create_from_folder_stores_first(stored_groups, stored_nodes, dir, label, description) ==
    IF ~type_check(description)
    THEN {Created("TypeError", "description", NoGroup, NoInstance, stored_nodes)}
    ELSE IF objects_get(stored_groups, label) # {}
    THEN {Created("ValueError", "already_exists", NoGroup, NoInstance,
                  stored_nodes)}
    ELSE LET stored_family == Group(label, TRUE, {})
             parsed == parse_pseudos_from_directory(dir, label)
         IN  IF parsed.exc # "None"
             THEN {Created(parsed.exc, parsed.msg, stored_family, FreshInstance,
                           stored_nodes)}
             ELSE LET with_pseudos == stored_nodes \cup Range(parsed.pseudos)
                  IN  {Created(o.exc, o.msg,
                               [stored_family EXCEPT !.nodes = o.nodes],
                               o.cache, with_pseudos) :
                       o \in add_nodes(stored_family, FreshInstance,
                                       NodeList(parsed.pseudos), with_pseudos)}

\* create_from_folder(cls, dirpath, label, description): the possible outcomes,
\* given the stored groups and stored nodes of the database.
create_from_folder(stored_groups, stored_nodes, dir, label, description) ==
    IF ~type_check(description)
    THEN {Created("TypeError", "description", NoGroup, NoInstance, stored_nodes)}
    ELSE IF objects_get(stored_groups, label) # {}
    THEN {Created("ValueError", "already_exists", NoGroup, NoInstance,
                  stored_nodes)}
    ELSE LET family == Group(label, FALSE, {})
             parsed == parse_pseudos_from_directory(dir, label)
         IN  IF parsed.exc # "None"
             THEN {Created(parsed.exc, parsed.msg, NoGroup, NoInstance,
                           stored_nodes)}
             ELSE LET stored_family == [family EXCEPT !.is_stored = TRUE]
                      with_pseudos == stored_nodes \cup Range(parsed.pseudos)
                  IN  {Created(o.exc, o.msg,
                               [stored_family EXCEPT !.nodes = o.nodes],
                               o.cache, with_pseudos) :
                       o \in add_nodes(stored_family, FreshInstance,
                                       NodeList(parsed.pseudos), with_pseudos)}

(***************************************************************************)
(* State.                                                                  *)
(*   groups       the family objects made so far, by slot: label, stored   *)
(*                flag and member nodes                                     *)
(*   inst         the Python instances held for each family: `_pseudos`    *)
(*   stored_nodes the nodes stored in the database                          *)
(*   res          the last call: operation, arguments, exception raised and *)
(*                value returned                                            *)
(***************************************************************************)
VARIABLES groups, inst, stored_nodes, res

vars == <<groups, inst, stored_nodes, res>>

NoInput == NodeList(<<>>)

Result(op, g, h, label, input, element, exc, msg, pseudo, keys, queried) ==
    [op |-> op, g |-> g, h |-> h, label |-> label, input |-> input,
     element |-> element, exc |-> exc, msg |-> msg, pseudo |-> pseudo,
     keys |-> keys, queried |-> queried]

Init ==
    /\ groups = [g \in GroupIds |->
                    IF g = 0 THEN Group(ExistingLabel, TRUE, {}) ELSE NoGroup]
    /\ inst = [g \in FamilyIds |-> [h \in Holders |-> NoInstance]]
    /\ stored_nodes = InitiallyStored
    /\ res = Result("none", 0, "", "", NoInput, None, "None", "", NoNode, {}, FALSE)

\* The family objects.  Family 0 has the label "B" and the database keeps
\* labels unique, so at most one more family, labelled "A", is stored: it is
\* groups[Kept].  groups[Held] is the family object variable "a" was bound
\* to by the constructor and that is not stored.  "a" refers to one family
\* object at a time: binding it to another one (constructor, objects.get,
\* create_from_folder) drops the instance it held, never a stored group.
Kept == 1
Held == 2
\* The instances of a family object just made.
NewlyBound(cache) == [h \in Holders |-> IF h = "a" THEN cache ELSE NoInstance]
Unbound == [h \in Holders |-> NoInstance]

StoredGroups == {groups[g] : g \in {k \in GroupIds : groups[k].is_stored}}

\* Inputs of add_nodes: a single node, or a list of at most MaxBatch nodes,
\* each named once (naming a node again assigns the same entry at line 149
\* and adds the same node at line 153).
Inputs ==
    {SingleNode(n) : n \in Pool}
    \cup {NodeList(l) :
            l \in UNION {{s \in [1..n -> Pool] :
                             \A i, j \in 1..n : i # j => s[i] # s[j]} :
                         n \in 0..MaxBatch}}

\* a = cls(label=label): an unstored family instance (lines 34-40).
Construct(label) ==
    /\ issubclass(_pseudo_type, "PseudoPotentialData")
    /\ groups' = [groups EXCEPT ![Held] = Group(label, FALSE, {})]
    /\ inst' = [inst EXCEPT ![Held] = NewlyBound(FreshInstance),
                            ![Kept]["a"] = NoInstance]
    /\ res' = Result("init", Held, "a", label, NoInput, None, "None", "",
                     NoNode, {}, FALSE)
    /\ UNCHANGED stored_nodes

\* h = cls.objects.get(label=...): variable h is bound to a new instance of
\* the stored family g, whose `_pseudos` is None.
Load(g, h) ==
    /\ groups[g].is_stored
    /\ inst[g][h] # FreshInstance
    /\ inst' = IF h = "a"
               THEN [inst EXCEPT ![g][h] = FreshInstance, ![Held] = Unbound]
               ELSE [inst EXCEPT ![g][h] = FreshInstance]
    /\ groups' = IF h = "a" THEN [groups EXCEPT ![Held] = NoGroup] ELSE groups
    /\ res' = Result("load", g, h, groups[g].label, NoInput, None, "None", "",
                     NoNode, {}, FALSE)
    /\ UNCHANGED stored_nodes

\* family.store() on a family object the caller holds (the call of line 118,
\* made by the caller).  Group.store writes the group once, a second call
\* does nothing; the database keeps the labels of the groups of one type
\* unique and the call raises IntegrityError when the label is taken.  The
\* object that got stored is groups[Kept] from then on.
Store(g) ==
    /\ groups[g].made
    /\ LET taken == \E k \in StoredGroups : k.label = groups[g].label IN
       IF groups[g].is_stored
       THEN /\ res' = Result("family_store", g, "a", groups[g].label, NoInput,
                             None, "None", "", NoNode, {}, FALSE)
            /\ UNCHANGED <<groups, inst>>
       ELSE IF taken
       THEN /\ res' = Result("family_store", g, "a", groups[g].label, NoInput,
                             None, "IntegrityError", "label_taken", NoNode, {},
                             FALSE)
            /\ UNCHANGED <<groups, inst>>
       ELSE /\ groups' = [groups EXCEPT
                             ![Kept] = [groups[g] EXCEPT !.is_stored = TRUE],
                             ![Held] = NoGroup]
            /\ inst' = [inst EXCEPT ![Kept] = inst[g], ![Held] = Unbound]
            /\ res' = Result("family_store", Kept, "a", groups[g].label,
                             NoInput, None, "None", "", NoNode, {}, FALSE)
    /\ UNCHANGED stored_nodes

\* node.store() on a node the caller holds.
StoreNode(node) ==
    /\ node \notin stored_nodes
    /\ stored_nodes' = stored_nodes \cup {node}
    /\ res' = Result("store", 0, "", "", SingleNode(node), None, "None", "",
                     NoNode, {}, FALSE)
    /\ UNCHANGED <<groups, inst>>

CreateFromFolder(dir, label, description) ==
    \E o \in create_from_folder(StoredGroups, stored_nodes, dir, label, description) :
        /\ groups' = IF o.group.made
                     THEN [groups EXCEPT ![Kept] = o.group, ![Held] = NoGroup]
                     ELSE groups
        /\ inst' = IF o.group.made
                   THEN [inst EXCEPT ![Kept] = NewlyBound(o.cache),
                                     ![Held] = Unbound]
                   ELSE inst
        /\ stored_nodes' = o.stored_nodes
        /\ res' = Result("create_from_folder",
                         IF o.group.made THEN Kept ELSE 0, "a", label,
                         NoInput, None, o.exc, o.msg, NoNode, {}, FALSE)

\* family.add_nodes(input) on the instance held in h.
AddNodes(g, h, input) ==
    /\ groups[g].made
    /\ inst[g][h].live
    /\ \E o \in add_nodes(groups[g], inst[g][h], input, stored_nodes) :
        /\ groups' = [groups EXCEPT ![g].nodes = o.nodes]
        /\ inst' = [inst EXCEPT ![g][h] = o.cache]
        /\ res' = Result("add_nodes", g, h, groups[g].label, input, None,
                         o.exc, o.msg, NoNode, {}, FALSE)
    /\ UNCHANGED stored_nodes

\* family.get_pseudo(element) on the instance held in h.
GetPseudo(g, h, element) ==
    /\ inst[g][h].live
    /\ \E o \in get_pseudo(groups[g], inst[g][h], element) :
        /\ inst' = [inst EXCEPT ![g][h] = o.cache]
        /\ res' = Result("get_pseudo", g, h, groups[g].label, NoInput, element,
                         o.exc, o.msg, o.pseudo, {}, o.queried)
    /\ UNCHANGED <<groups, stored_nodes>>

\* family.elements on the instance held in h.
GetElements(g, h) ==
    /\ inst[g][h].live
    /\ \E dict \in pseudos(inst[g][h], groups[g].nodes) :
        /\ inst' = [inst EXCEPT ![g][h] = Cache(TRUE, dict)]
        /\ res' = Result("elements", g, h, groups[g].label, NoInput, None,
                         "None", "", NoNode, elements(dict), FALSE)
    /\ UNCHANGED <<groups, stored_nodes>>

Next ==
    \/ \E label \in Labels : Construct(label)
    \/ \E g \in FamilyIds, h \in Holders : Load(g, h)
    \/ \E g \in FamilyIds : Store(g)
    \/ \E node \in Pool : StoreNode(node)
    \/ \E dir \in Dirs, label \in Labels, description \in DescriptionTypes :
          CreateFromFolder(dir, label, description)
    \/ \E g \in FamilyIds, h \in Holders, input \in Inputs :
          AddNodes(g, h, input)
    \/ \E g \in FamilyIds, h \in Holders, element \in Elements :
          GetPseudo(g, h, element)
    \/ \E g \in FamilyIds, h \in Holders : GetElements(g, h)

Spec == Init /\ [][Next]_vars

(***************************************************************************)
(* parse_pseudos_from_directory on its own: every call on a directory of   *)
(* at most MaxListing entries, drawn from the entries above and from       *)
(* entries with further filenames.  The function reads no state and       *)
(* writes none, so one call from the initial state is every call; `res`    *)
(* keeps the directory and what the call returned or raised.               *)
(***************************************************************************)
CuUpf == Entry(<<"C", "u", ".", "U", "P", "F">>, TRUE, None)
CuBak == Entry(<<"C", "u", ".", "u", "p", "f", ".", "b", "a", "k">>, TRUE, None)
LowerUpf == Entry(<<"f", "e", ".", "u", "p", "f">>, TRUE, None)
IronFe == Entry(<<"I", "r", "o", "n", ".", "u", "p", "f">>, TRUE, "Fe")
DashExt == Entry(<<"F", "e", ".", "-", "x">>, TRUE, None)
NoExt == Entry(<<"F", "e", ".">>, TRUE, None)
AccentExt == Entry(<<"F", "e", ".", "é">>, TRUE, None)
AccentStem == Entry(<<"R", "é", ".", "u", "p", "f">>, TRUE, None)

ParseEntries ==
    Entries \cup {Fe2Upf, IronUpf, SubDir, CuUpf, CuBak, LowerUpf, IronFe,
                  DashExt, NoExt, AccentExt, AccentStem}

ParseListings ==
    UNION {{l \in [1..n -> ParseEntries] :
               \A i, j \in 1..n : i # j => l[i].filename # l[j].filename} :
           n \in 0..MaxListing}

ParseDirs == {Dir(FALSE, <<>>)} \cup {Dir(TRUE, l) : l \in ParseListings}

\* cls.parse_pseudos_from_directory(dirpath)
ParseDirectory(dir) ==
    /\ res.op = "none"
    /\ res' = [op |-> "parse_pseudos_from_directory", dir |-> dir,
               parsed |-> parse_pseudos_from_directory(dir, "dir")]
    /\ UNCHANGED <<groups, inst, stored_nodes>>

ParseNext == \E dir \in ParseDirs : ParseDirectory(dir)

SpecParse == Init /\ [][ParseNext]_vars

(***************************************************************************)
(* Vocabulary of the properties.                                           *)
(***************************************************************************)
\* The element symbols carried by a set of nodes.
SymbolsOf(nodes) == {n.element : n \in nodes}

\* The keys of an instance's index once built: those of `_pseudos`, or those
\* the first access will build from the family's nodes.
KeysOf(cache, nodes) == IF cache.built THEN DOMAIN cache.dict ELSE SymbolsOf(nodes)

\* The nodes an instance's index holds once built.
IndexedBy(cache, nodes) ==
    IF cache.built THEN {cache.dict[e] : e \in DOMAIN cache.dict} ELSE nodes

\* The nodes of the input of the last add_nodes call.
Batch(r) == Range(as_list(r.input))

\* The step is a call of add_nodes on family g (res' describes the call).
IsAddNodes(g) == res'.op = "add_nodes" /\ res'.g = g

\* The step is a call of get_pseudo on the instance family g is held by in h.
IsGetPseudo(g, h) == res'.op = "get_pseudo" /\ res'.g = g /\ res'.h = h

\* The step changes nothing of family g: not its nodes, not the index of an
\* instance, apart from building that of the called one from the nodes.
FamilyUnchanged(g) ==
    /\ groups' = groups
    /\ stored_nodes' = stored_nodes
    /\ \A h \in Holders \ {res'.h} : inst'[g][h] = inst[g][h]
    /\ \/ inst'[g][res'.h] = inst[g][res'.h]
       \/ /\ ~inst[g][res'.h].built
          /\ inst'[g][res'.h].built
          /\ inst'[g][res'.h].dict \in comprehension(groups[g].nodes)

(***************************************************************************)
(* C1.  A stored family contains at most one node per element symbol, in   *)
(* every reachable state.  Stated as claimed; the batch of C3 breaks it.   *)
(***************************************************************************)
C1_OnePseudoPerElement ==
    \A g \in GroupIds :
        groups[g].is_stored =>
            \A n, m \in groups[g].nodes : n.element = m.element => n = m

(***************************************************************************)
(* C2, as claimed.  add_nodes on a stored family with an input in which    *)
(* some node's element already exists in the family fails with ValueError  *)
(* and leaves the family unchanged: the nodes are as before and the index  *)
(* holds no node of the call that it did not hold before.                  *)
(***************************************************************************)
HasPresentElement(g, r) ==
    \E n \in Batch(r) : n.element \in SymbolsOf(groups[g].nodes)

NoGainFromCall(g) ==
    /\ groups'[g].nodes = groups[g].nodes
    /\ IndexedBy(inst'[g][res'.h], groups'[g].nodes) \cap Batch(res')
           \subseteq IndexedBy(inst[g][res'.h], groups[g].nodes)

C2_PresentElementIsValueError ==
    [][\A g \in FamilyIds :
          (IsAddNodes(g) /\ groups[g].is_stored /\ HasPresentElement(g, res'))
              => (res'.exc = "ValueError" /\ NoGainFromCall(g))]_vars

(***************************************************************************)
(* C2, amended.  add_nodes on a stored family with an input in which some  *)
(* node's element is a key of the index of the called instance (as built,  *)
(* or as its first access builds it from the family's nodes) always fails  *)
(* and leaves the family unchanged: with ValueError when every node of the *)
(* input has exactly the accepted type, with TypeError when one has        *)
(* another type (the type guard comes first).  Every element of a family   *)
(* is a key of that index as long as no second instance of the family has  *)
(* been bound; an index built before another instance added an element     *)
(* lacks it, and add_nodes on that instance accepts a node of the element. *)
(***************************************************************************)
AllExactType(r) == \A n \in Batch(r) : n.type = _pseudo_type

\* Some node of the input has an element the called instance has indexed.
HasIndexedElement(g, r) ==
    \E n \in Batch(r) : n.element \in KeysOf(inst[g][r.h], groups[g].nodes)

\* Family g is held through "a" and no instance was bound to "b": "b", once
\* bound to the stored family, stays bound to it, so the family was used
\* through one instance at a time.
NoSecondInstance(g) == inst[g]["a"].live /\ ~inst[g]["b"].live

C2_PresentElementFails ==
    /\ [](\A g \in FamilyIds :
              NoSecondInstance(g)
                  => SymbolsOf(groups[g].nodes)
                         \subseteq KeysOf(inst[g]["a"], groups[g].nodes))
    /\ [][\A g \in FamilyIds :
             (IsAddNodes(g) /\ groups[g].is_stored /\ HasIndexedElement(g, res'))
                 => /\ res'.exc = (IF AllExactType(res') THEN "ValueError"
                                   ELSE "TypeError")
                    /\ NoGainFromCall(g)
                    /\ FamilyUnchanged(g)]_vars

\* A batch whose second node carries an element of the family was rejected
\* with ValueError, after a first node with a new element.
C2_Witness ==
    /\ res.op = "add_nodes" /\ res.exc = "ValueError"
    /\ res.msg = "element_present"
    /\ groups[res.g].is_stored
    /\ Len(as_list(res.input)) = 2
    /\ as_list(res.input)[1].element \notin SymbolsOf(groups[res.g].nodes)
    /\ as_list(res.input)[2].element \in SymbolsOf(groups[res.g].nodes)

(***************************************************************************)
(* C3, as claimed.  add_nodes on a stored family with a batch in which two *)
(* distinct nodes carry one element symbol that is not yet in the family   *)
(* fails with ValueError and commits no node of the batch, neither to the  *)
(* family nor to the index.                                                *)
(***************************************************************************)
HasDuplicateInBatch(g, r) ==
    \E n, m \in Batch(r) :
        /\ n # m
        /\ n.element = m.element
        /\ n.element \notin SymbolsOf(groups[g].nodes)
        /\ n.element \notin KeysOf(inst[g][r.h], groups[g].nodes)

C3_DuplicateInBatchRejected ==
    [][\A g \in FamilyIds :
          (IsAddNodes(g) /\ groups[g].is_stored /\ AllExactType(res')
             /\ Batch(res') \subseteq stored_nodes
             /\ HasDuplicateInBatch(g, res'))
              => (res'.exc = "ValueError" /\ NoGainFromCall(g))]_vars

(***************************************************************************)
(* C4, as claimed.  When the persistence step of add_nodes fails (a node   *)
(* of the batch is not stored), the index of the instance holds no node of *)
(* the batch afterwards.                                                   *)
(***************************************************************************)
C4_IndexRolledBack ==
    (res.op = "add_nodes" /\ res.msg = "unstored_node")
        => IndexedBy(inst[res.g][res.h], groups[res.g].nodes) \cap Batch(res) = {}

(***************************************************************************)
(* C5.  add_nodes on a family that is not stored always fails with         *)
(* ModificationNotAllowed and changes nothing; an unstored family holds no *)
(* nodes in any reachable state, and a step that adds nodes to a family    *)
(* finds or leaves the family stored (nodes enter only a durable family).  *)
(***************************************************************************)
C5_UnstoredFamilyRejects ==
    /\ [](\A g \in FamilyIds :
              (groups[g].made /\ ~groups[g].is_stored) => groups[g].nodes = {})
    /\ [][\A g \in FamilyIds :
             /\ (IsAddNodes(g) /\ ~groups[g].is_stored)
                    => /\ res'.exc = "ModificationNotAllowed"
                       /\ UNCHANGED <<groups, inst, stored_nodes>>
             /\ groups'[g].nodes # groups[g].nodes => groups'[g].is_stored]_vars

\* add_nodes was called with stored nodes of the accepted type on an unstored
\* family, and raised ModificationNotAllowed.
C5_Witness ==
    /\ res.op = "add_nodes" /\ res.exc = "ModificationNotAllowed"
    /\ groups[res.g].made /\ ~groups[res.g].is_stored
    /\ Batch(res) # {} /\ AllExactType(res) /\ Batch(res) \subseteq stored_nodes

(***************************************************************************)
(* C6.  add_nodes on a stored family fails with TypeError, and changes     *)
(* nothing, when some node of the input has a type that is not exactly     *)
(* `_pseudo_type` (a subclass instance included); every node a family      *)
(* contains has exactly that type.                                         *)
(***************************************************************************)
C6_ExactTypeOnly ==
    /\ [](\A g \in GroupIds : \A n \in groups[g].nodes : n.type = _pseudo_type)
    /\ [][\A g \in FamilyIds :
             (IsAddNodes(g) /\ groups[g].is_stored /\ ~AllExactType(res'))
                 => /\ res'.exc = "TypeError"
                    /\ UNCHANGED <<groups, inst, stored_nodes>>]_vars

\* A node of a subclass of `_pseudo_type`, with an element the family lacks,
\* was given to add_nodes of a stored family and refused with TypeError.
C6_Witness ==
    /\ res.op = "add_nodes" /\ res.exc = "TypeError"
    /\ groups[res.g].is_stored
    /\ \E n \in Batch(res) :
          /\ n.type # _pseudo_type
          /\ issubclass(n.type, _pseudo_type)
          /\ n.element \notin SymbolsOf(groups[res.g].nodes)

(***************************************************************************)
(* C7.  On an index miss get_pseudo(element) decides by the number of      *)
(* nodes the query over {this family, element} finds: none, ValueError;    *)
(* exactly one, that node is put in the index under the element and        *)
(* returned; more than one, RuntimeError (never ValueError).               *)
(***************************************************************************)
IndexMiss(g, h, element) ==
    element \notin KeysOf(inst[g][h], groups[g].nodes)

C7_MissDecidedByQuery ==
    [][\A g \in FamilyIds, h \in Holders :
          (IsGetPseudo(g, h) /\ IndexMiss(g, h, res'.element))
              => LET found == {n \in groups[g].nodes : n.element = res'.element}
                 IN  /\ found = {} => res'.exc = "ValueError"
                     /\ Cardinality(found) > 1 => res'.exc = "RuntimeError"
                     /\ Cardinality(found) = 1
                            => /\ res'.exc = "None"
                               /\ res'.pseudo \in found
                               /\ inst'[g][h].built
                               /\ res'.element \in DOMAIN inst'[g][h].dict
                               /\ inst'[g][h].dict[res'.element] = res'.pseudo]_vars

\* get_pseudo missed the index, the query found one node, and the node is now
\* in the index.
C7_Witness ==
    /\ res.op = "get_pseudo" /\ res.queried /\ res.exc = "None"
    /\ res.pseudo \in groups[res.g].nodes
    /\ res.element \in DOMAIN inst[res.g][res.h].dict
    /\ inst[res.g][res.h].dict[res.element] = res.pseudo

(***************************************************************************)
(* C8.  get_pseudo issues no query when the element is in the index, and   *)
(* returns the indexed node; a get_pseudo that succeeded leaves the        *)
(* element in the index with the node it returned; and an entry of the     *)
(* index of an instance is never replaced.  So after one success every     *)
(* later get_pseudo for the element on that instance returns the same node *)
(* without a query.                                                        *)
(***************************************************************************)
\* The step binds variable h to another instance: objects.get, or for "a"
\* the constructor or a create_from_folder that returns.
IsRebound(h) ==
    /\ res'.h = h
    /\ \/ res'.op \in {"load", "init"}
       \/ res'.op = "create_from_folder" /\ res'.exc = "None"

\* The instance variable h holds, given the instances `i`: that of the
\* unstored family object, else that of the stored family.
InstanceOf(i, h) == IF i[Held][h].live THEN i[Held][h] ELSE i[Kept][h]

C8_IndexedElementNeedsNoQuery ==
    /\ [](res.op = "get_pseudo" /\ res.exc = "None"
             => /\ inst[res.g][res.h].built
                /\ res.element \in DOMAIN inst[res.g][res.h].dict
                /\ inst[res.g][res.h].dict[res.element] = res.pseudo)
    /\ [][\A g \in FamilyIds, h \in Holders :
             (IsGetPseudo(g, h) /\ inst[g][h].built
                /\ res'.element \in DOMAIN inst[g][h].dict)
                    => /\ ~res'.queried
                       /\ res'.exc = "None"
                       /\ res'.pseudo = inst[g][h].dict[res'.element]
        ]_vars
    /\ [][\A h \in Holders :
             (InstanceOf(inst, h).built /\ ~IsRebound(h))
                 => \A e \in DOMAIN InstanceOf(inst, h).dict :
                       /\ InstanceOf(inst', h).built
                       /\ e \in DOMAIN InstanceOf(inst', h).dict
                       /\ InstanceOf(inst', h).dict[e]
                             = InstanceOf(inst, h).dict[e]]_vars

\* The second instance of a family answered get_pseudo from its index,
\* without a query, with a node that was added to the family after creation.
C8_Witness ==
    /\ res.op = "get_pseudo" /\ res.h = "b" /\ ~res.queried /\ res.exc = "None"
    /\ res.pseudo \in Pool
    /\ inst[res.g]["b"].dict[res.element] = res.pseudo

(***************************************************************************)
(* C9.  The index of an instance only grows: once built, the index stays   *)
(* built and keeps every key, under every call of add_nodes, get_pseudo    *)
(* and elements, failing or not, and under store (a step that binds the    *)
(* variable to a new instance aside).                                      *)
(***************************************************************************)
C9_IndexOnlyGrows ==
    [][\A h \in Holders :
          (InstanceOf(inst, h).built /\ ~IsRebound(h))
              => /\ InstanceOf(inst', h).built
                 /\ DOMAIN InstanceOf(inst, h).dict
                        \subseteq DOMAIN InstanceOf(inst', h).dict]_vars

\* A successful add_nodes on an instance whose index already had a key: the
\* index now has that key and the new one.
C9_Witness ==
    /\ res.op = "add_nodes" /\ res.exc = "None"
    /\ Batch(res) # {}
    /\ \E e \in DOMAIN inst[res.g][res.h].dict : e \notin SymbolsOf(Batch(res))
    /\ SymbolsOf(Batch(res)) \subseteq DOMAIN inst[res.g][res.h].dict

(***************************************************************************)
(* C10.  When parse_pseudos_from_directory fails in create_from_folder     *)
(* (ValueError or ParsingError), the call has written nothing: no family   *)
(* with the label is stored and no node of the directory is stored.        *)
(***************************************************************************)
ParseFailures ==
    {"not_a_directory", "not_a_file", "failed_to_parse", "no_element",
     "no_pseudos", "duplicate_elements"}

C10_NoWriteBeforeParsing ==
    /\ [](res.op = "create_from_folder" /\ res.msg \in ParseFailures
             => /\ \A g \in GroupIds :
                      groups[g].is_stored => groups[g].label # res.label
                /\ \A n \in stored_nodes : n.origin # res.label)
    /\ [][(res'.op = "create_from_folder" /\ res'.msg \in ParseFailures)
             => UNCHANGED <<groups, inst, stored_nodes>>]_vars

\* create_from_folder failed with ParsingError under a label that no stored
\* family carries.
C10_Witness ==
    /\ res.op = "create_from_folder"
    /\ res.exc = "ParsingError"
    /\ res.label \notin {g.label : g \in StoredGroups}

(***************************************************************************)
(* C11, as claimed.  create_from_folder with a label that a stored family  *)
(* carries fails with ValueError (already exists), whatever the directory  *)
(* and the description are, and stores no family and no node; and no two   *)
(* stored families share a label.                                          *)
(***************************************************************************)
StoredLabels == {g.label : g \in StoredGroups}

UniqueLabels ==
    \A g, k \in GroupIds :
        (groups[g].is_stored /\ groups[k].is_stored /\ g # k)
            => groups[g].label # groups[k].label

C11_ExistingLabelIsValueError ==
    /\ [](UniqueLabels)
    /\ [][(res'.op = "create_from_folder" /\ res'.label \in StoredLabels)
             => /\ res'.exc = "ValueError" /\ res'.msg = "already_exists"
                /\ UNCHANGED <<groups, inst, stored_nodes>>]_vars

(***************************************************************************)
(* C11, amended.  create_from_folder with a label that a stored family     *)
(* carries fails, whatever the directory is, and stores no family and no   *)
(* node: with ValueError (already exists) when the description is a string *)
(* or None, with TypeError when it is anything else (the description is    *)
(* checked first); and no two stored families share a label.               *)
(***************************************************************************)
C11_ExistingLabelFails ==
    /\ [](UniqueLabels)
    /\ [](\A label \in StoredLabels, dir \in Dirs, description \in DescriptionTypes :
             \A o \in create_from_folder(StoredGroups, stored_nodes, dir, label,
                                         description) :
                 /\ o.exc = (IF description \in {"str", "NoneType"}
                             THEN "ValueError" ELSE "TypeError")
                 /\ o.exc = "ValueError" => o.msg = "already_exists"
                 /\ ~o.group.made
                 /\ o.stored_nodes = stored_nodes)
    /\ [][(res'.op = "create_from_folder" /\ res'.label \in StoredLabels)
             => /\ res'.exc \in {"ValueError", "TypeError"}
                /\ res'.msg \in {"already_exists", "description"}
                /\ UNCHANGED <<groups, inst, stored_nodes>>]_vars

\* create_from_folder was called with the label of a family stored before
\* (by create_from_folder or by store), and failed with ValueError (already
\* exists).
C11_Witness ==
    /\ res.op = "create_from_folder" /\ res.exc = "ValueError"
    /\ res.msg = "already_exists"
    /\ \E g \in FamilyIds : groups[g].is_stored /\ groups[g].label = res.label

(***************************************************************************)
(* C12.  When create_from_folder succeeds the family is stored, every      *)
(* parsed node is stored, the family's nodes are exactly the nodes parsed  *)
(* from the directory, and for each of them its element is in `elements`   *)
(* and get_pseudo of that element returns it.  The first conjunct says it  *)
(* of every call that can be made in a reachable state, the second of the  *)
(* calls the behaviour makes.                                              *)
(***************************************************************************)
C12_CreatedFamilyHoldsParsed ==
    /\ [](\A dir \in Dirs, label \in Labels, description \in DescriptionTypes :
            \A o \in create_from_folder(StoredGroups, stored_nodes, dir, label,
                                        description) :
                o.exc = "None" =>
                    LET parsed == parse_pseudos_from_directory(dir, label)
                        records == Range(parsed.pseudos)
                    IN  /\ parsed.exc = "None"
                        /\ o.group.made /\ o.group.is_stored
                        /\ o.group.label = label
                        /\ records \subseteq o.stored_nodes
                        /\ o.group.nodes = records
                        /\ \A r \in records :
                              /\ \A dict \in pseudos(o.cache, o.group.nodes) :
                                    r.element \in elements(dict)
                              /\ \A got \in get_pseudo(o.group, o.cache, r.element) :
                                    got.exc = "None" /\ got.pseudo = r)
    /\ [][(res'.op = "create_from_folder" /\ res'.exc = "None")
             => LET family == groups'[res'.g]
                    cache == inst'[res'.g]["a"]
                IN  /\ res'.g \in FamilyIds
                    /\ family.is_stored /\ family.label = res'.label
                    /\ family.nodes \subseteq stored_nodes'
                    /\ \E dir \in Dirs :
                          LET parsed == parse_pseudos_from_directory(dir, res'.label)
                          IN  /\ parsed.exc = "None"
                              /\ family.nodes = Range(parsed.pseudos)
                    /\ \A r \in family.nodes :
                          /\ r.element \in KeysOf(cache, family.nodes)
                          /\ \A got \in get_pseudo(family, cache, r.element) :
                                got.exc = "None" /\ got.pseudo = r]_vars

\* create_from_folder succeeded on a directory of two files: the family is
\* stored and holds the two parsed nodes, both stored and both in its index.
C12_Witness ==
    /\ res.op = "create_from_folder" /\ res.exc = "None"
    /\ res.g \in FamilyIds
    /\ groups[res.g].is_stored
    /\ Cardinality(groups[res.g].nodes) = 2
    /\ groups[res.g].nodes \subseteq stored_nodes
    /\ \A r \in groups[res.g].nodes : r.origin = res.label
    /\ inst[res.g]["a"].built
    /\ DOMAIN inst[res.g]["a"].dict = {"Fe", "O"}

(***************************************************************************)
(* Vocabulary of the properties of parse_pseudos_from_directory.           *)
(***************************************************************************)
IsParse == res.op = "parse_pseudos_from_directory"

\* The element an entry resolves to on its own: the one the constructor
\* sets, else the one read from the filename; None when the entry gives no
\* node with an element.
Resolved(entry) ==
    IF ~entry.isfile \/ entry.ctor = "ParsingError" THEN None
    ELSE IF entry.ctor # None THEN entry.ctor
    ELSE re_search(entry.filename)

\* Two entries of the listing resolve to the same element.
SameElementTwice(listing) ==
    \E i, j \in DOMAIN listing :
        /\ i # j
        /\ Resolved(listing[i]) # None
        /\ Resolved(listing[i]) = Resolved(listing[j])

\* What is returned is not empty and its elements are pairwise distinct.
ReturnsDistinct(parsed) ==
    parsed.exc = "None" =>
        /\ parsed.pseudos # <<>>
        /\ \A i, j \in DOMAIN parsed.pseudos :
              i # j => parsed.pseudos[i].element # parsed.pseudos[j].element
        /\ Len(parsed.pseudos) = Cardinality(SymbolsOf(Range(parsed.pseudos)))

(***************************************************************************)
(* C13, as claimed.  parse_pseudos_from_directory returns a list only if   *)
(* it is not empty and its nodes have pairwise distinct elements; on a     *)
(* directory without entries, and on one where two files resolve to the    *)
(* same element, it raises ValueError.                                     *)
(***************************************************************************)
C13_SameElementIsValueError ==
    IsParse =>
        /\ ReturnsDistinct(res.parsed)
        /\ (res.dir.isdir /\ res.dir.listing = <<>>)
              => res.parsed.exc = "ValueError"
        /\ (res.dir.isdir /\ SameElementTwice(res.dir.listing))
              => res.parsed.exc = "ValueError"

(***************************************************************************)
(* C13, amended.  parse_pseudos_from_directory returns a list only if it   *)
(* is not empty and its nodes have pairwise distinct elements; on a        *)
(* directory without entries it raises ValueError; on one where two files  *)
(* resolve to the same element it fails: with ValueError when every entry  *)
(* resolves to an element, and with the error of the entry that does not   *)
(* (ValueError for one that is not a file, ParsingError for one that does  *)
(* not parse or has no element) otherwise.                                 *)
(***************************************************************************)
C13_SameElementFails ==
    IsParse =>
        /\ ReturnsDistinct(res.parsed)
        /\ (res.dir.isdir /\ res.dir.listing = <<>>)
              => res.parsed.exc = "ValueError" /\ res.parsed.msg = "no_pseudos"
        /\ (res.dir.isdir /\ SameElementTwice(res.dir.listing))
              => IF \A i \in DOMAIN res.dir.listing :
                        Resolved(res.dir.listing[i]) # None
                 THEN /\ res.parsed.exc = "ValueError"
                      /\ res.parsed.msg = "duplicate_elements"
                 ELSE IF \E i \in DOMAIN res.dir.listing :
                            ~res.dir.listing[i].isfile
                      THEN res.parsed.exc \in {"ValueError", "ParsingError"}
                      ELSE res.parsed.exc = "ParsingError"

\* The call was made on a directory of three files, each resolving to an
\* element, one by its constructor and two by their filenames to the same
\* one, and raised ValueError for the repeated element.
C13_Witness ==
    /\ IsParse
    /\ res.dir.isdir /\ Len(res.dir.listing) = 3
    /\ \A i \in 1..3 : Resolved(res.dir.listing[i]) # None
    /\ \E i \in 1..3 : res.dir.listing[i].ctor # None
    /\ \E i, j \in 1..3 :
          /\ i # j
          /\ res.dir.listing[i].ctor = None /\ res.dir.listing[j].ctor = None
          /\ Resolved(res.dir.listing[i]) = Resolved(res.dir.listing[j])
    /\ res.parsed.exc = "ValueError" /\ res.parsed.msg = "duplicate_elements"

\* The filename starts with k characters of `letters` followed by a dot.
Stem(filename, k, letters) ==
    /\ Len(filename) >= k + 1
    /\ \A i \in 1..k : filename[i] \in letters
    /\ filename[k + 1] = "."

\* The characters before the first dot of a filename with such a start.
LeadingLetters(filename) ==
    IF filename[2] = "." THEN filename[1] ELSE filename[1] \o filename[2]

\* One or two alphabetic characters, a dot and an extension: something
\* follows the dot.
HasExtension(filename) ==
    \E k \in 1..2 :
        /\ Stem(filename, k, Alpha \cup Latin1Letters)
        /\ Len(filename) > k + 1

\* One or two of the letters A-Z, a-z, a dot and an extension that starts
\* with a letter, a digit or an underscore.
HasWordExtension(filename) ==
    \E k \in 1..2 :
        /\ Stem(filename, k, Alpha) /\ Len(filename) > k + 1
        /\ filename[k + 2] \in WordChar

\* The rule of lines 68-84 seen from the outside, `fits[i]` saying whether
\* the filename of entry i has the format an element is read from.  The
\* first file without an element and without such a filename makes the call
\* raise ParsingError; when there is none, no ParsingError is raised for a
\* missing element, and what is returned has, entry by entry, the element
\* the constructor set, else the leading letters of the filename.
FilenameRule(dir, parsed, fits) ==
    LET l == dir.listing
        Plain(i) == l[i].isfile /\ l[i].ctor # "ParsingError"
        Unset(i) == l[i].ctor = None
        Good(i) == Plain(i) /\ (Unset(i) => fits[i])
    IN  dir.isdir =>
          /\ \A i \in DOMAIN l :
                (Plain(i) /\ Unset(i) /\ ~fits[i] /\ \A j \in 1..(i - 1) : Good(j))
                    => parsed.exc = "ParsingError" /\ parsed.msg = "no_element"
          /\ (\A i \in DOMAIN l : Good(i))
                => parsed.exc \in {"None", "ValueError"}
          /\ parsed.exc = "None"
                => /\ Len(parsed.pseudos) = Len(l)
                   /\ \A i \in DOMAIN l :
                         /\ Good(i)
                         /\ parsed.pseudos[i].name = l[i].filename
                         /\ parsed.pseudos[i].element =
                               IF Unset(i) THEN LeadingLetters(l[i].filename)
                               ELSE l[i].ctor

(***************************************************************************)
(* C14, as claimed.  For a file whose constructor leaves the element       *)
(* unset: when the filename is one or two letters, a dot and an extension, *)
(* the element is those letters, case kept; otherwise the call raises      *)
(* ParsingError.  When the constructor set the element it is left as set,  *)
(* whatever the filename is.                                               *)
(***************************************************************************)
C14_ElementFromFilename ==
    IsParse =>
        FilenameRule(res.dir, res.parsed,
                     [i \in DOMAIN res.dir.listing |->
                         HasExtension(res.dir.listing[i].filename)])

(***************************************************************************)
(* C14, amended.  For a file whose constructor leaves the element unset:   *)
(* when the filename starts with one or two of the letters A-Z, a-z, a dot  *)
(* and a letter, a digit or an underscore (of any script), the element is  *)
(* those one or two letters, case kept; otherwise the call raises          *)
(* ParsingError.  When the constructor set the element it is left as set,  *)
(* whatever the filename.                                                  *)
(***************************************************************************)
C14_ElementFromWordExtension ==
    IsParse =>
        FilenameRule(res.dir, res.parsed,
                     [i \in DOMAIN res.dir.listing |->
                         HasWordExtension(res.dir.listing[i].filename)])

\* The call returned nodes for Cu.UPF, whose element Cu was read from the
\* filename, and for Iron.upf, whose element Fe was set by the constructor
\* and whose filename has no element to read.
C14_Witness ==
    /\ IsParse /\ res.parsed.exc = "None"
    /\ \E i, j \in DOMAIN res.dir.listing :
          /\ res.dir.listing[i] = CuUpf
          /\ res.parsed.pseudos[i].element = "Cu"
          /\ res.dir.listing[j] = IronFe
          /\ re_search(IronFe.filename) = None
          /\ res.parsed.pseudos[j].element = "Fe"

(***************************************************************************)
(* C15, as claimed.  On a family used through a single instance (no       *)
(* second one was bound), once the index is built every entry e -> r has   *)
(* r.element = e and r in the family's nodes, and the keys of the index    *)
(* are the elements of the family's nodes; so a node returned by           *)
(* get_pseudo(e) on that instance is in the family and has element e.      *)
(***************************************************************************)
C15_IndexIsFaithfulCache ==
    /\ \A g \in FamilyIds :
          (NoSecondInstance(g) /\ inst[g]["a"].built) =>
              LET dict == inst[g]["a"].dict IN
              /\ \A e \in DOMAIN dict :
                    dict[e].element = e /\ dict[e] \in groups[g].nodes
              /\ DOMAIN dict = SymbolsOf(groups[g].nodes)
    /\ (res.op = "get_pseudo" /\ res.h = "a" /\ res.exc = "None"
          /\ NoSecondInstance(res.g))
          => /\ res.pseudo \in groups[res.g].nodes
             /\ res.pseudo.element = res.element

(***************************************************************************)
(* C16.  get_pseudo and elements change nothing but the index of the       *)
(* instance they are called on: the nodes, label and stored flag of every  *)
(* family, the stored nodes and the other instances stay as they are.  Of  *)
(* that index (as built, or as its first access builds it from the         *)
(* family's nodes) no key is lost and no entry is changed, elements adds   *)
(* none, and get_pseudo(e) adds at most the key e, with the node it        *)
(* returns, and only when its query found exactly that one node.  A        *)
(* get_pseudo that raises ValueError or RuntimeError on a built index      *)
(* leaves the instance as it was.                                          *)
(***************************************************************************)
C16_ReadsOnlyTouchTheIndex ==
    [][\A g \in FamilyIds, h \in Holders :
          ((IsGetPseudo(g, h) \/ (res'.op = "elements" /\ res'.g = g /\ res'.h = h)))
              => LET before == inst[g][h]
                     after == inst'[g][h]
                     nodes == groups[g].nodes
                     gained == (DOMAIN after.dict) \ KeysOf(before, nodes)
                 IN  /\ groups' = groups /\ stored_nodes' = stored_nodes
                     /\ \A k \in FamilyIds, j \in Holders :
                           <<k, j>> # <<g, h>> => inst'[k][j] = inst[k][j]
                     /\ after.built
                     /\ KeysOf(before, nodes) \subseteq DOMAIN after.dict
                     /\ \A e \in (DOMAIN after.dict) \ gained :
                           IF before.built
                           THEN after.dict[e] = before.dict[e]
                           ELSE after.dict[e] \in nodes /\ after.dict[e].element = e
                     /\ res'.op = "elements" => gained = {}
                     /\ gained \subseteq {res'.element}
                     /\ gained # {}
                           => /\ res'.exc = "None" /\ res'.queried
                              /\ query(groups[g], res'.element) = {res'.pseudo}
                              /\ after.dict[res'.element] = res'.pseudo
                     /\ (res'.exc \in {"ValueError", "RuntimeError"} /\ before.built)
                           => after = before]_vars

\* get_pseudo of an element the family has no node of raised ValueError on
\* an instance whose index was built and holds the family's node.
C16_Witness ==
    /\ res.op = "get_pseudo" /\ res.exc = "ValueError" /\ res.queried
    /\ groups[res.g].nodes # {}
    /\ res.element \notin SymbolsOf(groups[res.g].nodes)
    /\ inst[res.g][res.h].built
    /\ DOMAIN inst[res.g][res.h].dict = SymbolsOf(groups[res.g].nodes)

(***************************************************************************)
(* C17.  add_nodes reports the first guard that fails, in the order: the   *)
(* family is stored, every node of the input has exactly the accepted      *)
(* type, no node of the input has an element the index of the called      *)
(* instance has.  On a family that is not stored it raises                 *)
(* ModificationNotAllowed whatever the input is; on a stored family an     *)
(* input with a node of another type raises TypeError, also when a node of *)
(* the input has an element the family has; and an input of nodes of the   *)
(* accepted type with an indexed element raises the ValueError of the      *)
(* element, also when a node of it is not stored.                          *)
(***************************************************************************)
C17_FirstFailedGuardReported ==
    [][\A g \in FamilyIds :
          IsAddNodes(g)
              => IF ~groups[g].is_stored
                 THEN res'.exc = "ModificationNotAllowed"
                 ELSE IF ~AllExactType(res')
                 THEN res'.exc = "TypeError" /\ res'.msg = "wrong_type"
                 ELSE HasIndexedElement(g, res')
                         => /\ res'.exc = "ValueError"
                            /\ res'.msg = "element_present"]_vars

\* add_nodes on a stored family was given a list with a node of a subclass
\* and a node of the accepted type whose element the family has, and raised
\* TypeError.
C17_Witness ==
    /\ res.op = "add_nodes" /\ res.exc = "TypeError"
    /\ groups[res.g].is_stored
    /\ \E n, m \in Batch(res) :
          /\ n.type # _pseudo_type
          /\ m.type = _pseudo_type
          /\ m.element \in SymbolsOf(groups[res.g].nodes)

====
